---- MODULE Spec2Model ----
(***************************************************************************)
(* Model of the process supervisor of manager/manager.go: Start(), the     *)
(* per-spec monitor goroutines of startProcess(), Shutdown(), Wait(), the  *)
(* child processes they manage and the context watcher that                *)
(* exec.CommandContext attaches to every started command.                  *)
(*                                                                         *)
(* Time is abstracted: a sleep or a timer may complete at any moment, so   *)
(* every interleaving the Go scheduler can produce is a behaviour.         *)
(***************************************************************************)
EXTENDS Integers, FiniteSets, Sequences, TLC

\* ---------------------------------------------------------------- bounds
NumSpecs == 2          \* length of the list handed to NewProcessManager
MaxExits == 1          \* spontaneous (unsignalled) exits allowed per child
MaxLen == 4            \* length of the byte sequence fed to a prefixedWriter
MaxDelay == 7          \* largest Process.RestartDelay, in seconds

Specs == 1..NumSpecs

\* ---------------------------------------------------------------- state
VARIABLES
    critical,      \* Process.Critical of every spec of pm.processes
    startPc,       \* position of the caller inside Start()
    startIdx,      \* index of the range loop of Start()
    startResult,   \* value returned by Start(): "none" while it runs
    pc,            \* position of every monitor goroutine
    exitAt,        \* return statement by which a monitor goroutine ended
    mu,            \* holder of pm.mu (Free, a spec index or ShutdownId)
    running,       \* keys of pm.running
    procSet,       \* cmd.Process != nil for the command of every spec
    child,         \* OS process of every spec: "none", "running", "exited"
    termSent,      \* Shutdown() sent SIGTERM to the process of the command
    killSent,      \* who sent SIGKILL to the current child
    successes,     \* number of successful cmd.Start() calls per spec
    exits,         \* number of spontaneous exits per spec
    cancelled,     \* pm.ctx is done
    wg,            \* counter of pm.wg
    sdPc,          \* position of the caller inside Shutdown()
    sdPath,        \* branch taken by the select of Shutdown()
    doneClosed,    \* the done channel of Shutdown() is closed
    mapAtCall,     \* keys of pm.running when Shutdown() was called
    waitPc,        \* position of a caller of Wait()
    sinkData,      \* the bytes a child writes to one prefixedWriter
    sinkFed,       \* how many of them were passed to Write so far
    sinkBuffer,    \* prefixedWriter.buffer
    sinkDest,      \* the writes the destination file accepted, in order
    sinkFailed,    \* a write to the destination has failed
    sinkDropped,   \* the input lines (by position) whose write has failed
    sinkRet,       \* len(p) and the result (n, err) of the last Write(p)
    sigChan,       \* number of signals buffered in sigChan of main() (cap 1)
    sigSeen,       \* the host was sent a signal at least once
    restartDelay,  \* Process.RestartDelay of the timed goroutine, in seconds
    tmPc,          \* position of the timed goroutine
    tmDelay,       \* its local variable `delay`
    tmElapsed,     \* seconds since its time.After(delay) was armed
    tmCancelled    \* pm.ctx is done, for the timed goroutine

vars == <<critical, startPc, startIdx, startResult, pc, exitAt, mu, running,
          procSet, child, termSent, killSent, successes, exits,
          cancelled, wg, sdPc, sdPath, doneClosed, mapAtCall, waitPc,
          sinkData, sinkFed, sinkBuffer, sinkDest, sinkFailed, sinkDropped,
          sinkRet,
          sigChan, sigSeen,
          restartDelay, tmPc, tmDelay, tmElapsed, tmCancelled>>

startVars == <<startPc, startIdx, startResult>>
childVars == <<child, termSent, killSent, exits>>
countVars == <<successes>>
sdVars    == <<sdPc, sdPath, doneClosed, mapAtCall>>
sinkVars  == <<sinkData, sinkFed, sinkBuffer, sinkDest, sinkFailed, sinkDropped,
               sinkRet>>
bridgeVars == <<sigChan, sigSeen>>
timedVars == <<restartDelay, tmPc, tmDelay, tmElapsed, tmCancelled>>
pmVars    == <<critical, startVars, pc, exitAt, mu, running, procSet, childVars,
               countVars, cancelled, wg, sdVars, waitPc>>

Free == 0
ShutdownId == NumSpecs + 1

\* ------------------------------------------------------------ NewProcessManager
\* the ProcessManager NewProcessManager returns, before Start() is called
NewProcessManager ==
    /\ startPc = "call"
    /\ startIdx = 1
    /\ startResult = "none"
    /\ pc = [i \in Specs |-> "none"]
    /\ exitAt = [i \in Specs |-> "none"]
    /\ mu = Free
    /\ running = {}
    /\ procSet = [i \in Specs |-> FALSE]
    /\ child = [i \in Specs |-> "none"]
    /\ termSent = [i \in Specs |-> FALSE]
    /\ killSent = [i \in Specs |-> "none"]
    /\ successes = [i \in Specs |-> 0]
    /\ exits = [i \in Specs |-> 0]
    /\ cancelled = FALSE
    /\ wg = 0
    /\ sdPc = "idle"
    /\ sdPath = "none"
    /\ doneClosed = FALSE
    /\ mapAtCall = {}
    /\ waitPc = "idle"

\* a prefixedWriter as startProcess builds it: empty buffer, nothing written
NewSink ==
    /\ sinkFed = 0
    /\ sinkBuffer = <<>>
    /\ sinkDest = <<>>
    /\ sinkFailed = FALSE
    /\ sinkDropped = {}
    /\ sinkRet = [len |-> 0, n |-> 0, err |-> "nil"]

\* main(): sigChan := make(chan os.Signal, 1); signal.Notify(sigChan, ...)
NotifyInit ==
    /\ sigChan = 0
    /\ sigSeen = FALSE

\* the 5 * time.Second of startProcess and of the specs of main()
DefaultDelay == 5

\* a monitor goroutine followed with a clock, as `go func()` launches it
NewTimed ==
    /\ tmPc = "top"
    /\ tmDelay = 0
    /\ tmElapsed = 0
    /\ tmCancelled = FALSE

Init ==
    /\ critical \in [Specs -> BOOLEAN]
    /\ NewProcessManager
    /\ NotifyInit
    /\ NewSink
    /\ sinkData = <<>>
    /\ NewTimed
    /\ restartDelay = DefaultDelay

\* the host process has not exited: its goroutines can run
HostAlive == sdPc # "exited"

\* ------------------------------------------------------------------ Start()

\* an `initial` that is false, as for a launch that is to be retried
initial_retry(i) == FALSE

\* the `initial` argument every call of startProcess passes
initial(i) == TRUE

\* startProcess, were it to report an error unless the child is up when the
\* sleep ends
startProcess_reportsNotUp(i) == IF child[i] = "running" THEN "nil" ELSE "err"

\* the error startProcess returns to Start(): always nil, the goroutine
\* never hands the error of cmd.Start() back
startProcess(i) == "nil"

\* Start() gives up on the list: the error is non-nil and the spec critical
StartAborts(err, crit) == err # "nil" /\ crit

\* a startProcess that launches the goroutine without wg.Add(1)
StartLaunch_noAdd ==
    /\ HostAlive
    /\ startPc = "call"
    /\ pc' = [pc EXCEPT ![startIdx] = "top"]
    /\ startPc' = "sleep"
    /\ UNCHANGED <<sinkVars, timedVars, bridgeVars, critical, startIdx, startResult, exitAt, mu, running,
                   procSet, childVars, countVars, cancelled, wg, sdVars, waitPc>>

\* startProcess up to the launch of the goroutine: wg.Add(1); go func()
StartLaunch ==
    /\ HostAlive
    /\ startPc = "call"
    /\ wg' = wg + 1
    /\ pc' = [pc EXCEPT ![startIdx] = "top"]
    /\ startPc' = "sleep"
    /\ UNCHANGED <<sinkVars, timedVars, bridgeVars, critical, startIdx, startResult, exitAt, mu, running,
                   procSet, childVars, countVars, cancelled, sdVars, waitPc>>

\* the end of the range loop body: the next spec, or return nil
StartAdvance ==
    IF startIdx < NumSpecs
    THEN /\ startIdx' = startIdx + 1
         /\ startPc' = "call"
         /\ startResult' = startResult
    ELSE /\ startIdx' = startIdx
         /\ startPc' = "returned"
         /\ startResult' = "nil"

\* the 500ms sleep of startProcess ends, it returns, Start() looks at err
StartHandle ==
    /\ HostAlive
    /\ startPc = "sleep"
    /\ IF StartAborts(startProcess(startIdx), critical[startIdx])
       THEN /\ startPc' = "returned"
            /\ startResult' = "error"
            /\ startIdx' = startIdx
       ELSE IF critical[startIdx]
            THEN /\ startPc' = "stabilize"
                 /\ UNCHANGED <<startIdx, startResult>>
            ELSE StartAdvance
    /\ UNCHANGED <<sinkVars, timedVars, bridgeVars, critical, pc, exitAt, mu, running, procSet, childVars,
                   countVars, cancelled, wg, sdVars, waitPc>>

\* the one second sleep after a critical spec ends
StartStabilize ==
    /\ HostAlive
    /\ startPc = "stabilize"
    /\ StartAdvance
    /\ UNCHANGED <<sinkVars, timedVars, bridgeVars, critical, pc, exitAt, mu, running, procSet, childVars,
                   countVars, cancelled, wg, sdVars, waitPc>>

\* ------------------------------------------------- monitor goroutine of a spec

\* a return of the goroutine: the deferred pm.wg.Done() runs
LoopReturn(i, site) ==
    /\ pc' = [pc EXCEPT ![i] = "done"]
    /\ exitAt' = [exitAt EXCEPT ![i] = site]
    /\ wg' = wg - 1

\* a for loop that builds the command without looking at pm.ctx
LoopTop_noCtxCheck(i) ==
    /\ HostAlive
    /\ pc[i] = "top"
    /\ pc' = [pc EXCEPT ![i] = "lockInsert"]
    /\ procSet' = [procSet EXCEPT ![i] = FALSE]
    /\ UNCHANGED <<sinkVars, timedVars, bridgeVars, critical, startVars, exitAt, mu, running, childVars,
                   countVars, cancelled, wg, sdVars, waitPc>>

\* top of the for loop: the non-blocking select on pm.ctx.Done(), then the
\* construction of the command (its Process field is nil)
LoopTop(i) ==
    /\ HostAlive
    /\ pc[i] = "top"
    /\ IF cancelled
       THEN /\ LoopReturn(i, "ctxTop")
            /\ UNCHANGED procSet
       ELSE /\ pc' = [pc EXCEPT ![i] = "lockInsert"]
            /\ procSet' = [procSet EXCEPT ![i] = FALSE]
            /\ UNCHANGED <<exitAt, wg>>
    /\ UNCHANGED <<sinkVars, timedVars, bridgeVars, critical, startVars, mu, running, childVars, countVars,
                   cancelled, sdVars, waitPc>>

\* pm.mu.Lock() before the command is stored
LoopLockInsert(i) ==
    /\ HostAlive
    /\ pc[i] = "lockInsert"
    /\ mu = Free
    /\ mu' = i
    /\ pc' = [pc EXCEPT ![i] = "insert"]
    /\ UNCHANGED <<sinkVars, timedVars, bridgeVars, critical, startVars, exitAt, running, procSet, childVars,
                   countVars, cancelled, wg, sdVars, waitPc>>

\* an insert that does not release pm.mu
LoopInsert_keepsLock(i) ==
    /\ HostAlive
    /\ pc[i] = "insert"
    /\ mu = i
    /\ running' = running \cup {i}
    /\ pc' = [pc EXCEPT ![i] = "cmdStart"]
    /\ UNCHANGED <<sinkVars, timedVars, bridgeVars, critical, startVars, exitAt, mu, procSet, childVars,
                   countVars, cancelled, wg, sdVars, waitPc>>

\* pm.running[proc.Name] = cmd; pm.mu.Unlock()
LoopInsert(i) ==
    /\ HostAlive
    /\ pc[i] = "insert"
    /\ mu = i
    /\ running' = running \cup {i}
    /\ mu' = Free
    /\ pc' = [pc EXCEPT ![i] = "cmdStart"]
    /\ UNCHANGED <<sinkVars, timedVars, bridgeVars, critical, startVars, exitAt, procSet, childVars, countVars,
                   cancelled, wg, sdVars, waitPc>>

\* cmd.Start(), first part: a command made by exec.CommandContext refuses to
\* start when its context is already done and returns ctx.Err()
LoopCmdStart(i) ==
    /\ HostAlive
    /\ pc[i] = "cmdStart"
    /\ pc' = [pc EXCEPT ![i] = IF cancelled THEN "lockDelFailed" ELSE "fork"]
    /\ UNCHANGED <<sinkVars, timedVars, bridgeVars, critical, startVars, exitAt, mu, running, procSet, childVars,
                   countVars, cancelled, wg, sdVars, waitPc>>

\* cmd.Start(), second part: os.StartProcess creates the child and stores it
\* in cmd.Process, or fails
LoopFork(i) ==
    /\ HostAlive
    /\ pc[i] = "fork"
    /\ \E ok \in BOOLEAN :
         IF ok
         THEN /\ child' = [child EXCEPT ![i] = "running"]
              /\ termSent' = [termSent EXCEPT ![i] = FALSE]
              /\ killSent' = [killSent EXCEPT ![i] = "none"]
              /\ procSet' = [procSet EXCEPT ![i] = TRUE]
              /\ successes' = [successes EXCEPT ![i] = @ + 1]
              /\ pc' = [pc EXCEPT ![i] = "startRet"]
         ELSE /\ pc' = [pc EXCEPT ![i] = "lockDelFailed"]
              /\ UNCHANGED <<child, termSent, killSent, procSet, successes>>
    /\ UNCHANGED <<sinkVars, timedVars, bridgeVars, critical, startVars, exitAt, mu, running, exits,
                   cancelled, wg, sdVars, waitPc>>

\* cmd.Start() returns nil and the PID is logged
LoopStartReturned(i) ==
    /\ HostAlive
    /\ pc[i] = "startRet"
    /\ pc' = [pc EXCEPT ![i] = "wait"]
    /\ UNCHANGED <<sinkVars, timedVars, bridgeVars, critical, startVars, exitAt, mu, running, procSet, childVars,
                   countVars, cancelled, wg, sdVars, waitPc>>

\* pm.mu.Lock() after cmd.Start() failed
LoopLockDeleteFailed(i) ==
    /\ HostAlive
    /\ pc[i] = "lockDelFailed"
    /\ mu = Free
    /\ mu' = i
    /\ pc' = [pc EXCEPT ![i] = "delFailed"]
    /\ UNCHANGED <<sinkVars, timedVars, bridgeVars, critical, startVars, exitAt, running, procSet, childVars,
                   countVars, cancelled, wg, sdVars, waitPc>>

\* the start failed: delete(pm.running, proc.Name); pm.mu.Unlock();
\* if initial { return }, else go on to the delay
LoopDeleteFailed(i) ==
    /\ HostAlive
    /\ pc[i] = "delFailed"
    /\ mu = i
    /\ running' = running \ {i}
    /\ mu' = Free
    /\ IF initial(i)
       THEN LoopReturn(i, "startFailed")
       ELSE /\ pc' = [pc EXCEPT ![i] = "failDelay"]
            /\ UNCHANGED <<exitAt, wg>>
    /\ UNCHANGED <<sinkVars, timedVars, bridgeVars, critical, startVars, procSet, childVars, countVars,
                   cancelled, sdVars, waitPc>>

\* a cmd.Wait() that returns while the child still runs
LoopWait_returnsEarly(i) ==
    /\ HostAlive
    /\ pc[i] = "wait"
    /\ pc' = [pc EXCEPT ![i] = "lockDelete"]
    /\ UNCHANGED <<sinkVars, timedVars, bridgeVars, critical, startVars, exitAt, mu, running,
                   procSet, childVars, countVars, cancelled, wg, sdVars, waitPc>>

\* cmd.Wait() returns once the child has exited, and reaps it
LoopWait(i) ==
    /\ HostAlive
    /\ pc[i] = "wait"
    /\ child[i] = "exited"
    /\ child' = [child EXCEPT ![i] = "none"]
    /\ pc' = [pc EXCEPT ![i] = "lockDelete"]
    /\ UNCHANGED <<sinkVars, timedVars, bridgeVars, critical, startVars, exitAt, mu, running, procSet, termSent,
                   killSent, exits, countVars, cancelled, wg, sdVars, waitPc>>

\* pm.mu.Lock() after cmd.Wait() returned
LoopLockDelete(i) ==
    /\ HostAlive
    /\ pc[i] = "lockDelete"
    /\ mu = Free
    /\ mu' = i
    /\ pc' = [pc EXCEPT ![i] = "delete"]
    /\ UNCHANGED <<sinkVars, timedVars, bridgeVars, critical, startVars, exitAt, running, procSet, childVars,
                   countVars, cancelled, wg, sdVars, waitPc>>

\* an Unlock after cmd.Wait() without the delete
LoopDelete_keepsEntry(i) ==
    /\ HostAlive
    /\ pc[i] = "delete"
    /\ mu = i
    /\ mu' = Free
    /\ pc' = [pc EXCEPT ![i] = "exitCheck"]
    /\ UNCHANGED <<sinkVars, timedVars, bridgeVars, critical, startVars, exitAt, running,
                   procSet, childVars, countVars, cancelled, wg, sdVars, waitPc>>

\* delete(pm.running, proc.Name); pm.mu.Unlock()
LoopDelete(i) ==
    /\ HostAlive
    /\ pc[i] = "delete"
    /\ mu = i
    /\ running' = running \ {i}
    /\ mu' = Free
    /\ pc' = [pc EXCEPT ![i] = "exitCheck"]
    /\ UNCHANGED <<sinkVars, timedVars, bridgeVars, critical, startVars, exitAt, procSet, childVars, countVars,
                   cancelled, wg, sdVars, waitPc>>

\* the non-blocking select on pm.ctx.Done() after the child was reaped
LoopExitCheck(i) ==
    /\ HostAlive
    /\ pc[i] = "exitCheck"
    /\ IF cancelled
       THEN LoopReturn(i, "ctxAfterWait")
       ELSE /\ pc' = [pc EXCEPT ![i] = "delay"]
            /\ UNCHANGED <<exitAt, wg>>
    /\ UNCHANGED <<sinkVars, timedVars, bridgeVars, critical, startVars, mu, running, procSet, childVars,
                   countVars, cancelled, sdVars, waitPc>>

\* select { case <-time.After(delay): case <-pm.ctx.Done(): return }, after an
\* exit ("delay") or after a failed start ("failDelay"); with both cases
\* ready the select takes either
LoopDelay(i) ==
    /\ HostAlive
    /\ pc[i] \in {"delay", "failDelay"}
    /\ \/ /\ pc' = [pc EXCEPT ![i] = "top"]
          /\ UNCHANGED <<exitAt, wg>>
       \/ /\ cancelled
          /\ LoopReturn(i, IF pc[i] = "delay" THEN "ctxDelay" ELSE "ctxFailDelay")
    /\ UNCHANGED <<sinkVars, timedVars, bridgeVars, critical, startVars, mu, running, procSet, childVars,
                   countVars, cancelled, sdVars, waitPc>>

\* ------------------------------------------------------------ child processes

\* a running child ends: by itself (or an external kill) at most MaxExits
\* times, or at any moment once it was sent SIGTERM or SIGKILL
ChildExit(i) ==
    /\ child[i] = "running"
    /\ LET signalled == termSent[i] \/ killSent[i] # "none" IN
       /\ signalled \/ exits[i] < MaxExits
       /\ exits' = [exits EXCEPT ![i] = IF signalled THEN @ ELSE @ + 1]
    /\ child' = [child EXCEPT ![i] = "exited"]
    /\ UNCHANGED <<sinkVars, timedVars, bridgeVars, critical, startVars, pc, exitAt, mu, running, procSet,
                   termSent, killSent, countVars, cancelled, wg, sdVars, waitPc>>

\* the watcher exec.CommandContext gives a started command: when pm.ctx is
\* done it kills the child (cmd.Cancel defaults to Process.Kill)
CtxKill(i) ==
    /\ HostAlive
    /\ cancelled
    /\ child[i] = "running"
    /\ killSent[i] = "none"
    /\ killSent' = [killSent EXCEPT ![i] = "ctx"]
    /\ UNCHANGED <<sinkVars, timedVars, bridgeVars, critical, startVars, pc, exitAt, mu, running, procSet,
                   child, termSent, exits, countVars, cancelled, wg, sdVars,
                   waitPc>>

\* ----------------------------------------------------------------- Shutdown()

\* what a read of cmd.Process that is not ordered with cmd.Start() can see:
\* the read of Shutdown() is guarded by pm.mu, the write of cmd.Start() is
\* not, so while cmd.Start() is returning either value may be seen
ObservedProcess(i) == IF pc[i] = "startRet" THEN BOOLEAN ELSE {procSet[i]}

\* the ways Shutdown() can see the Process fields of the commands in the map
Observations ==
    {obs \in [running -> BOOLEAN] : \A i \in running : obs[i] \in ObservedProcess(i)}

\* a pass that stops after the first handle it acts on
PassTargets_firstOnly(obs) ==
    {i \in running : obs[i] /\ \A j \in running : obs[j] => i <= j}

\* the handles a pass over pm.running acts on: if cmd.Process != nil
PassTargets(obs) == {i \in running : obs[i]}

\* main() after Start() returned nil: sig := <-sigChan, then Shutdown(),
\* whose first statement is pm.cancel()
ShutdownCancel ==
    /\ sdPc = "idle"
    /\ startPc = "returned"
    /\ startResult = "nil"
    /\ sigChan > 0
    /\ sigChan' = sigChan - 1
    /\ cancelled' = TRUE
    /\ mapAtCall' = running
    /\ sdPc' = "lockTerm"
    /\ UNCHANGED <<sinkVars, timedVars, sigSeen, critical, startVars, pc, exitAt, mu, running,
                   procSet, childVars, countVars, wg, sdPath, doneClosed, waitPc>>

\* pm.mu.Lock() before the SIGTERM pass
ShutdownLockTerm ==
    /\ sdPc = "lockTerm"
    /\ mu = Free
    /\ mu' = ShutdownId
    /\ sdPc' = "sigterm"
    /\ UNCHANGED <<sinkVars, timedVars, bridgeVars, critical, startVars, pc, exitAt, running, procSet, childVars,
                   countVars, cancelled, wg, sdPath, doneClosed, mapAtCall, waitPc>>

\* the SIGTERM pass over pm.running, pm.mu.Unlock(), and the launch of the
\* goroutine that waits for pm.wg and closes done
ShutdownSigterm ==
    /\ sdPc = "sigterm"
    /\ mu = ShutdownId
    /\ \E obs \in Observations :
         termSent' = [i \in Specs |-> termSent[i] \/ i \in PassTargets(obs)]
    /\ mu' = Free
    /\ sdPc' = "select"
    /\ UNCHANGED <<sinkVars, timedVars, bridgeVars, critical, startVars, pc, exitAt, running, procSet, child,
                   killSent, exits, countVars, cancelled, wg, sdPath,
                   doneClosed, mapAtCall, waitPc>>

\* the goroutine of Shutdown(): pm.wg.Wait() returns, close(done)
WaiterDone ==
    /\ HostAlive
    /\ sdPc \in {"select", "lockKill", "kill", "returned"}
    /\ ~doneClosed
    /\ wg = 0
    /\ doneClosed' = TRUE
    /\ UNCHANGED <<sinkVars, timedVars, bridgeVars, critical, startVars, pc, exitAt, mu, running, procSet,
                   childVars, countVars, cancelled, wg, sdPc, sdPath,
                   mapAtCall, waitPc>>

\* select, case <-done
ShutdownGraceful ==
    /\ sdPc = "select"
    /\ doneClosed
    /\ sdPath' = "graceful"
    /\ sdPc' = "returned"
    /\ UNCHANGED <<sinkVars, timedVars, bridgeVars, critical, startVars, pc, exitAt, mu, running, procSet,
                   childVars, countVars, cancelled, wg, doneClosed, mapAtCall, waitPc>>

\* a select without the timeout case
ShutdownTimeout_missing ==
    /\ FALSE
    /\ UNCHANGED vars

\* select, case <-time.After(30 * time.Second)
ShutdownTimeout ==
    /\ sdPc = "select"
    /\ sdPath' = "timeout"
    /\ sdPc' = "lockKill"
    /\ UNCHANGED <<sinkVars, timedVars, bridgeVars, critical, startVars, pc, exitAt, mu, running, procSet,
                   childVars, countVars, cancelled, wg, doneClosed, mapAtCall, waitPc>>

\* pm.mu.Lock() before the kill pass
ShutdownLockKill ==
    /\ sdPc = "lockKill"
    /\ mu = Free
    /\ mu' = ShutdownId
    /\ sdPc' = "kill"
    /\ UNCHANGED <<sinkVars, timedVars, bridgeVars, critical, startVars, pc, exitAt, running, procSet, childVars,
                   countVars, cancelled, wg, sdPath, doneClosed, mapAtCall, waitPc>>

\* the kill pass over pm.running, pm.mu.Unlock(), return
ShutdownKill ==
    /\ sdPc = "kill"
    /\ mu = ShutdownId
    /\ \E obs \in Observations :
         killSent' = [i \in Specs |->
            IF i \in PassTargets(obs) /\ child[i] = "running" /\ killSent[i] = "none"
            THEN "shutdown" ELSE killSent[i]]
    /\ mu' = Free
    /\ sdPc' = "returned"
    /\ UNCHANGED <<sinkVars, timedVars, bridgeVars, critical, startVars, pc, exitAt, running, procSet, child,
                   termSent, exits, countVars, cancelled, wg, sdPath,
                   doneClosed, mapAtCall,
                   waitPc>>

\* --------------------------------------------------------------------- Wait()

\* a caller enters Wait(): pm.wg.Wait()
WaitCall ==
    /\ HostAlive
    /\ waitPc = "idle"
    /\ waitPc' = "blocked"
    /\ UNCHANGED <<sinkVars, timedVars, bridgeVars, critical, startVars, pc, exitAt, mu, running, procSet,
                   childVars, countVars, cancelled, wg, sdVars>>

\* pm.wg.Wait() returns when the counter is zero
WaitReturn ==
    /\ HostAlive
    /\ waitPc = "blocked"
    /\ wg = 0
    /\ waitPc' = "returned"
    /\ UNCHANGED <<sinkVars, timedVars, bridgeVars, critical, startVars, pc, exitAt, mu, running, procSet,
                   childVars, countVars, cancelled, wg, sdVars>>

\* --------------------------------------------------------------------- main()

\* a signal delivered only while main() is blocked in the receive
SignalArrives_unbuffered ==
    /\ HostAlive
    /\ sigSeen' = TRUE
    /\ sigChan' = IF startPc = "returned" /\ sigChan = 0 THEN 1 ELSE sigChan
    /\ UNCHANGED <<sinkVars, timedVars, pmVars>>

\* the host is sent SIGINT or SIGTERM: the runtime puts it into sigChan
\* without blocking, and drops it when the buffer of one is full
SignalArrives ==
    /\ HostAlive
    /\ sigSeen' = TRUE
    /\ sigChan' = IF sigChan = 0 THEN 1 ELSE sigChan
    /\ UNCHANGED <<sinkVars, timedVars, pmVars>>

\* Shutdown() has returned: main() logs and returns, the host process exits
\* and with it every goroutine
MainExit ==
    /\ sdPc = "returned"
    /\ sdPc' = "exited"
    /\ UNCHANGED <<sinkVars, timedVars, bridgeVars, critical, startVars, pc, exitAt, mu,
                   running, procSet, childVars, countVars, cancelled, wg,
                   sdPath, doneClosed, mapAtCall, waitPc>>

\* ------------------------------------------------------------ prefixedWriter

NL == 10                         \* '\n'
Letter == 97                     \* any byte other than '\n'
Bytes == {NL, Letter}
Prefix == <<91, 93>>             \* pw.prefix, "[name] " shortened to "[]"

\* all byte sequences of length at most n
RECURSIVE SeqsUpTo(_)
SeqsUpTo(n) ==
    IF n = 0 THEN {<<>>}
    ELSE LET shorter == SeqsUpTo(n - 1) IN
         shorter \cup {Append(q, b) : q \in {r \in shorter : Len(r) = n - 1}, b \in Bytes}

\* the search loop for '\n': the index of the first one, counted from 1, and
\* 0 where the code has lineEnd == -1
FirstNewline(buf) ==
    IF \E i \in 1..Len(buf) : buf[i] = NL
    THEN CHOOSE i \in 1..Len(buf) : buf[i] = NL /\ \A j \in 1..(i - 1) : buf[j] # NL
    ELSE 0

\* a Write that forgets what the previous Write left in the buffer
AppendInput_dropsRest(buf, p) == p

\* pw.buffer = append(pw.buffer, p...)
AppendInput(buf, p) == buf \o p

\* a Write that reports the failure of the destination to its caller
FailedReturn_reportsError(originalLen) == [n |-> 0, err |-> "write failed"]

\* the return inside the loop, after pw.dest.Write failed
FailedReturn(originalLen) == [n |-> originalLen, err |-> "nil"]

\* the loop over the complete lines of the buffer; `k` counts the writes to
\* the destination of this call and the failAt-th of them fails (none when
\* failAt = 0)
RECURSIVE ProcessLines(_, _, _, _, _)
ProcessLines(buf, out, k, failAt, originalLen) ==
    LET lineEnd == FirstNewline(buf) IN
    IF lineEnd = 0
    THEN [buffer |-> buf, out |-> out, failed |-> FALSE,
          n |-> originalLen, err |-> "nil"]
    ELSE LET line == SubSeq(buf, 1, lineEnd)
             prefixed == Prefix \o line
         IN  IF k = failAt
             THEN [buffer |-> buf, out |-> out, failed |-> TRUE,
                   n |-> FailedReturn(originalLen).n,
                   err |-> FailedReturn(originalLen).err]
             ELSE ProcessLines(SubSeq(buf, lineEnd + 1, Len(buf)),
                               Append(out, prefixed), k + 1, failAt, originalLen)

\* Write(p) on a sink whose buffer is buf
Write(buf, p, failAt) ==
    ProcessLines(AppendInput(buf, p), <<>>, 1, failAt, Len(p))

\* the child passes the next bytes of its output, in a chunk of any length,
\* to Write; the lines reach the destination in order and none is skipped,
\* so the line whose write fails is the one after those already accepted
SinkWrite ==
    /\ \E len \in 0..(Len(sinkData) - sinkFed), failAt \in 0..MaxLen :
         LET p == SubSeq(sinkData, sinkFed + 1, sinkFed + len)
             r == Write(sinkBuffer, p, failAt)
         IN  /\ failAt # 0 => r.failed
             /\ sinkFed' = sinkFed + len
             /\ sinkBuffer' = r.buffer
             /\ sinkDest' = sinkDest \o r.out
             /\ sinkFailed' = (sinkFailed \/ r.failed)
             /\ sinkDropped' = IF r.failed
                               THEN sinkDropped \cup {Len(sinkDest) + Len(r.out) + 1}
                               ELSE sinkDropped
             /\ sinkRet' = [len |-> len, n |-> r.n, err |-> r.err]
    /\ UNCHANGED <<sinkData, pmVars, bridgeVars, timedVars>>

\* ------------------------------------------- a monitor goroutine with a clock

\* the other variables of the model, which a timed step leaves alone
untimedVars == <<sinkVars, bridgeVars, pmVars, restartDelay>>

\* a delay that leaves a RestartDelay of zero as it is
RestartDelayOf_zeroStays(d) == d

\* delay := proc.RestartDelay; if delay == 0 { delay = 5 * time.Second }
RestartDelayOf(d) == IF d = 0 THEN DefaultDelay ELSE d

\* the select on pm.ctx.Done() at the head of the for loop
TimedTop ==
    /\ tmPc = "top"
    /\ tmPc' = IF tmCancelled THEN "returned" ELSE "start"
    /\ UNCHANGED <<untimedVars, tmDelay, tmElapsed, tmCancelled>>

\* cmd.Start(): on success on to cmd.Wait(); on failure return if initial,
\* else compute the delay and arm time.After(delay)
TimedStart ==
    /\ tmPc = "start"
    /\ \E ok \in BOOLEAN :
         IF ok
         THEN /\ tmPc' = "wait"
              /\ UNCHANGED <<tmDelay, tmElapsed>>
         ELSE IF initial(1)
              THEN /\ tmPc' = "returned"
                   /\ UNCHANGED <<tmDelay, tmElapsed>>
              ELSE /\ tmPc' = "failSelect"
                   /\ tmDelay' = RestartDelayOf(restartDelay)
                   /\ tmElapsed' = 0
    /\ UNCHANGED <<untimedVars, tmCancelled>>

\* cmd.Wait() returns, the entry is deleted, the select on pm.ctx.Done();
\* if not cancelled compute the delay and arm time.After(delay)
TimedExit ==
    /\ tmPc = "wait"
    /\ IF tmCancelled
       THEN /\ tmPc' = "returned"
            /\ UNCHANGED <<tmDelay, tmElapsed>>
       ELSE /\ tmPc' = "select"
            /\ tmDelay' = RestartDelayOf(restartDelay)
            /\ tmElapsed' = 0
    /\ UNCHANGED <<untimedVars, tmCancelled>>

\* a second passes while the goroutine is blocked in the select of a delay
Tick ==
    /\ tmPc \in {"select", "failSelect"}
    /\ tmElapsed < tmDelay
    /\ tmElapsed' = tmElapsed + 1
    /\ UNCHANGED <<untimedVars, tmPc, tmDelay, tmCancelled>>

\* case <-time.After(delay): the timer has run for `delay`, the loop goes on
TimerFires ==
    /\ tmPc \in {"select", "failSelect"}
    /\ tmElapsed = tmDelay
    /\ tmPc' = "top"
    /\ UNCHANGED <<untimedVars, tmDelay, tmElapsed, tmCancelled>>

\* case <-pm.ctx.Done(): return
TimedCtxDone ==
    /\ tmPc \in {"select", "failSelect"}
    /\ tmCancelled
    /\ tmPc' = "returned"
    /\ UNCHANGED <<untimedVars, tmDelay, tmElapsed, tmCancelled>>

\* pm.cancel() of Shutdown()
TimedCancel ==
    /\ ~tmCancelled
    /\ tmCancelled' = TRUE
    /\ UNCHANGED <<untimedVars, tmPc, tmDelay, tmElapsed>>

\* ------------------------------------------------------------ specifications

LoopStep(i) ==
    \/ LoopTop(i)
    \/ LoopLockInsert(i)
    \/ LoopInsert(i)
    \/ LoopCmdStart(i)
    \/ LoopFork(i)
    \/ LoopStartReturned(i)
    \/ LoopLockDeleteFailed(i)
    \/ LoopDeleteFailed(i)
    \/ LoopWait(i)
    \/ LoopLockDelete(i)
    \/ LoopDelete(i)
    \/ LoopExitCheck(i)
    \/ LoopDelay(i)

StartStep == StartLaunch \/ StartHandle \/ StartStabilize

Next ==
    \/ StartLaunch
    \/ StartHandle
    \/ StartStabilize
    \/ \E i \in Specs : LoopTop(i)
    \/ \E i \in Specs : LoopLockInsert(i)
    \/ \E i \in Specs : LoopInsert(i)
    \/ \E i \in Specs : LoopCmdStart(i)
    \/ \E i \in Specs : LoopFork(i)
    \/ \E i \in Specs : LoopStartReturned(i)
    \/ \E i \in Specs : LoopLockDeleteFailed(i)
    \/ \E i \in Specs : LoopDeleteFailed(i)
    \/ \E i \in Specs : LoopWait(i)
    \/ \E i \in Specs : LoopLockDelete(i)
    \/ \E i \in Specs : LoopDelete(i)
    \/ \E i \in Specs : LoopExitCheck(i)
    \/ \E i \in Specs : LoopDelay(i)
    \/ \E i \in Specs : ChildExit(i)
    \/ \E i \in Specs : CtxKill(i)
    \/ ShutdownCancel
    \/ ShutdownLockTerm
    \/ ShutdownSigterm
    \/ WaiterDone
    \/ ShutdownGraceful
    \/ ShutdownTimeout
    \/ ShutdownLockKill
    \/ ShutdownKill
    \/ WaitCall
    \/ WaitReturn
    \/ SignalArrives
    \/ MainExit

Spec == Init /\ [][Next]_vars

\* the list main() hands to NewProcessManager: the server, critical, and
\* the client, not critical
InitMain == Init /\ critical = [i \in Specs |-> i = 1]

\* the steps of the caller of Shutdown() once it was called
ShutdownRun ==
    \/ ShutdownLockTerm
    \/ ShutdownSigterm
    \/ ShutdownGraceful
    \/ ShutdownTimeout
    \/ ShutdownLockKill
    \/ ShutdownKill

\* The Go scheduler runs every runnable goroutine and a timer that was set
\* fires. Nothing is assumed of the children (a child may never exit) nor of
\* the host: the signal that makes main() call Shutdown() may never come.
\* The goroutines stop when main() returns.
FairSpec ==
    /\ InitMain
    /\ [][Next]_vars
    /\ WF_vars(StartStep)
    /\ \A i \in Specs : WF_vars(LoopStep(i))
    /\ WF_vars(ShutdownCancel)
    /\ WF_vars(ShutdownRun)
    /\ WF_vars(MainExit)
    /\ WF_vars(WaiterDone)
    /\ WF_vars(WaitReturn)

\* one prefixedWriter fed a bounded byte sequence in chunks
SinkInit ==
    /\ critical = [i \in Specs |-> i = 1]
    /\ NewProcessManager
    /\ NotifyInit
    /\ NewSink
    /\ NewTimed
    /\ restartDelay = DefaultDelay
    /\ sinkData \in SeqsUpTo(MaxLen)

SinkNext == SinkWrite

SinkSpec == SinkInit /\ [][SinkNext]_vars

\* one monitor goroutine with a clock, for every RestartDelay up to MaxDelay
TimedInit ==
    /\ critical = [i \in Specs |-> i = 1]
    /\ NewProcessManager
    /\ NotifyInit
    /\ NewSink
    /\ sinkData = <<>>
    /\ NewTimed
    /\ restartDelay \in 0..MaxDelay

TimedNext ==
    \/ TimedTop
    \/ TimedStart
    \/ TimedExit
    \/ Tick
    \/ TimerFires
    \/ TimedCtxDone
    \/ TimedCancel

TimedSpec == TimedInit /\ [][TimedNext]_vars

TypeOK ==
    /\ pc \in [Specs -> {"none", "top", "lockInsert", "insert", "cmdStart",
                         "fork", "startRet", "lockDelFailed", "delFailed",
                         "failDelay", "wait", "lockDelete", "delete",
                         "exitCheck", "delay", "done"}]
    /\ mu \in 0..ShutdownId
    /\ wg \in 0..NumSpecs
    /\ running \subseteq Specs
    /\ child \in [Specs -> {"none", "running", "exited"}]

\* ------------------------------------------------------------------ claims

\* the first cmd.Start() of spec i failed and its goroutine has returned
InitialFailed(i) ==
    pc[i] = "done" /\ exitAt[i] = "startFailed" /\ successes[i] = 0

\* the step by which Start() leaves startProcess for the spec at startIdx
StartResumes == startPc = "sleep" /\ startPc' # "sleep"

\* the step by which Shutdown() finishes its SIGTERM pass
SigtermPass == sdPc = "sigterm" /\ sdPc' = "select"

\* C1: when the initial launch of a critical spec has failed, Start() returns
\* an error and launches no later spec.
C1_CriticalFailureAborts ==
    [][(StartResumes /\ critical[startIdx] /\ InitialFailed(startIdx))
          => (startPc' = "returned" /\ startResult' = "error")]_vars

\* C2: when the initial launch of a non-critical spec has failed, Start() goes
\* on to the next spec of the list, and Start() returns nil whenever no
\* critical spec's initial launch has failed.
C2_NonCriticalFailureContinues ==
    [][/\ (StartResumes /\ ~critical[startIdx] /\ InitialFailed(startIdx))
            => IF startIdx < NumSpecs
               THEN startPc' = "call" /\ startIdx' = startIdx + 1
               ELSE startPc' = "returned" /\ startResult' = "nil"
       /\ (startPc # "returned" /\ startPc' = "returned"
             /\ \A i \in Specs : critical[i] => ~InitialFailed(i))
            => startResult' = "nil"]_vars

\* C2 witness: Start() is about to launch the next spec after the initial
\* launch of a non-critical spec failed.
C2_Witness ==
    /\ startPc = "call"
    /\ startIdx > 1
    /\ ~critical[startIdx - 1]
    /\ InitialFailed(startIdx - 1)

\* C3: once pm.ctx is cancelled no child process is started.
C3_NoStartAfterCancel ==
    [][cancelled => \A i \in Specs : child'[i] = "running" => child[i] = "running"]_vars

\* C4 as claimed: every handle in the map when Shutdown() was called is sent
\* SIGTERM by the pass of Shutdown().
C4_EveryHandleAtCallSignalled ==
    [][SigtermPass => \A i \in mapAtCall : termSent'[i]]_vars

\* C4 amended: every handle in the map when Shutdown() iterates it, whose
\* cmd.Start() has returned and whose process is not yet reaped, is sent
\* SIGTERM by the pass.
C4_StartedHandlesSignalled ==
    [][SigtermPass => \A i \in running : pc[i] = "wait" => termSent'[i]]_vars

\* C4 witness: the pass is over and two handles with a started process
\* were signalled.
C4_Witness ==
    /\ sdPc = "select"
    /\ \A i \in Specs : i \in running /\ pc[i] = "wait" /\ termSent[i]

\* C5: a call of Shutdown() eventually returns.
C5_ShutdownReturns ==
    (sdPc \in {"lockTerm", "sigterm", "select", "lockKill", "kill"})
        ~> (sdPc = "returned")

\* C5 witness: Shutdown() has returned by the timeout although a child that
\* was sent SIGTERM is still running and its goroutine still waits for it.
C5_Witness ==
    /\ sdPc = "returned"
    /\ sdPath = "timeout"
    /\ \E i \in Specs : pc[i] = "wait" /\ child[i] = "running" /\ termSent[i]

\* C6: when Shutdown() has returned no child is running, a child that was
\* sent SIGKILL counting as not running.
C6_NoChildAfterShutdown ==
    sdPc = "returned" => \A i \in Specs : child[i] = "running" => killSent[i] # "none"

\* C7: when Shutdown() has returned the counter of pm.wg is zero, so that
\* Wait() does not block.
C7_WaitAfterShutdown == sdPc = "returned" => wg = 0

\* C8: a child is sent SIGKILL only after it was sent SIGTERM and the bounded
\* wait of Shutdown() timed out.
C8_KillOnlyAfterTimeout ==
    \A i \in Specs : killSent[i] # "none" => (sdPath = "timeout" /\ termSent[i])

\* C9: a goroutine whose child was started at least once does not end on a
\* failed start unless cancellation was requested.
C9_RetryAfterFailedRestart ==
    \A i \in Specs :
        (pc[i] = "done" /\ exitAt[i] = "startFailed" /\ successes[i] >= 1) => cancelled

\* C10: after the exit of the k-th instance of a spec was observed while no
\* cancellation was requested, a further instance is started, unless
\* cancellation is requested first.
C10_RestartAfterExit ==
    \A i \in Specs : \A k \in 1..(MaxExits + 1) :
        (pc[i] = "lockDelete" /\ successes[i] = k /\ ~cancelled)
            ~> (cancelled \/ successes[i] > k)

\* the lines of a byte sequence: every maximal run that ends in '\n'
RECURSIVE LinesOf(_)
LinesOf(q) ==
    IF FirstNewline(q) = 0 THEN <<>>
    ELSE <<SubSeq(q, 1, FirstNewline(q))>>
         \o LinesOf(SubSeq(q, FirstNewline(q) + 1, Len(q)))

\* the bytes passed to Write so far
SinkInput == SubSeq(sinkData, 1, sinkFed)

\* C11: as long as the destination accepts every write, what was written
\* after any split of the input into chunks is what one Write of the whole
\* input writes; every write is the prefix and one line that ends in its
\* only '\n'; the bytes after the last '\n' stay in the buffer.
C11_ChunkingInvariant ==
    ~sinkFailed =>
        /\ sinkDest = Write(<<>>, SinkInput, 0).out
        /\ sinkBuffer = Write(<<>>, SinkInput, 0).buffer
        /\ \A w \in 1..Len(sinkDest) :
             LET line == SubSeq(sinkDest[w], Len(Prefix) + 1, Len(sinkDest[w])) IN
             /\ SubSeq(sinkDest[w], 1, Len(Prefix)) = Prefix
             /\ FirstNewline(line) = Len(line)
             /\ Len(line) > 0
             /\ line = LinesOf(SinkInput)[w]
        /\ Len(sinkDest) = Len(LinesOf(SinkInput))
        /\ FirstNewline(sinkBuffer) = 0

\* C11 witness: a line that was split over two Write calls has been written
\* and unterminated bytes are held back.
C11_Witness ==
    /\ ~sinkFailed
    /\ sinkFed = Len(sinkData)
    /\ sinkRet.len < sinkFed
    /\ sinkRet.len > 0
    /\ Len(sinkDest) > 0
    /\ Len(sinkDest[Len(sinkDest)]) > Len(Prefix) + sinkRet.len
    /\ sinkBuffer # <<>>

\* C12: every Write(p) returns len(p) and a nil error.
C12_WriteReportsFullLength ==
    sinkRet.n = sinkRet.len /\ sinkRet.err = "nil"

\* C12 witness: a Write of a non-empty chunk during which the destination
\* failed has returned.
C12_Witness ==
    /\ sinkFailed
    /\ sinkRet.len > 0
    /\ FirstNewline(sinkBuffer) # 0

\* the goroutine of spec i has called cmd.Start() at least once
Attempted(i) ==
    \/ successes[i] > 0
    \/ pc[i] \in {"fork", "lockDelFailed", "delFailed"}
    \/ pc[i] = "done" /\ exitAt[i] = "startFailed"

\* C13: the goroutines are launched in list order, the stabilization sleep
\* of a critical spec is over before the next goroutine is launched, and
\* the first cmd.Start() of a spec does not precede the first cmd.Start()
\* of the spec before it in the list.
C13_StartOrder ==
    \A i \in 1..(NumSpecs - 1) :
        /\ pc[i + 1] # "none" => pc[i] # "none"
        /\ (pc[i + 1] # "none" /\ critical[i]) => startIdx > i
        /\ Attempted(i + 1) => Attempted(i)

\* the step by which pm.wg.Wait() returns to the caller of Wait()
WaitReturns == waitPc = "blocked" /\ waitPc' = "returned"

C15_BridgeShutsDownOnce ==
    /\ [][/\ (sdPc = "idle" /\ sdPc' # "idle")
               => (sdPc' = "lockTerm" /\ sigSeen /\ startPc = "returned" /\ ~cancelled)
          /\ (sdPc # "idle") => (sdPc' # "idle" /\ (sdPc' = "lockTerm" => sdPc = "lockTerm"))
          /\ (sdPc # "exited" /\ sdPc' = "exited") => sdPc = "returned"
          /\ (sigSeen' /\ sdPc' = "idle") => sigChan' = 1]_vars
    /\ sigSeen ~> (sdPc # "idle")

\* C15 witness: the host has exited after Shutdown() and a further signal,
\* sent after the first was received, was left in sigChan.
C15_Witness ==
    /\ sdPc = "exited"
    /\ sigSeen
    /\ sigChan = 1

\* C16: every entry of pm.running belongs to a child that was started and
\* whose exit was not yet observed by cmd.Wait(): there is no entry for a
\* spec whose process is not started, failed to start, or was reaped.
C16_HandlesAreLiveChildren ==
    \A i \in running : procSet[i] /\ child[i] # "none"

\* C17: once pm.ctx is cancelled nothing is added to pm.running.
C17_NoInsertAfterCancel ==
    [][cancelled => running' \subseteq running]_vars

\* the positions of a goroutine between pm.mu.Lock() and pm.mu.Unlock()
LoopLocked == {"insert", "delFailed", "delete"}

\* the positions of Shutdown() between pm.mu.Lock() and pm.mu.Unlock()
ShutdownLocked == {"sigterm", "kill"}

\* C18: pm.running is changed only by the goroutine that holds pm.mu and
\* only in its own entry, and is iterated by Shutdown() only while
\* Shutdown() holds pm.mu; a held lock passes to nobody before it is
\* released; the lock is held by a goroutine only between a Lock and the
\* Unlock around its map access, so not while it starts a process, waits
\* for one or sleeps, and by Shutdown() only during a pass, so not while it
\* waits for the goroutines.
C18_LockDiscipline ==
    /\ [][/\ running' # running
               => \E i \in Specs :
                     /\ mu = i
                     /\ pc[i] \in LoopLocked
                     /\ running' \ {i} = running \ {i}
          /\ (sdPc \in ShutdownLocked /\ sdPc' # sdPc) => mu = ShutdownId
          /\ (mu # Free /\ mu' # mu) => mu' = Free]_vars
    /\ [](\A i \in Specs : mu = i <=> pc[i] \in LoopLocked)
    /\ [](mu = ShutdownId <=> sdPc \in ShutdownLocked)

\* C18 witness: Shutdown() holds the lock for its kill pass while one
\* goroutine waits for the lock to delete its entry and the other sleeps.
C18_Witness ==
    /\ mu = ShutdownId
    /\ sdPc = "kill"
    /\ \E i, j \in Specs : pc[i] = "lockDelete" /\ pc[j] = "delay"

\* the goroutine of spec i is in the restart delay, or at the head of the
\* for loop that follows it
Delaying(i) == pc[i] \in {"delay", "top"}

LiveLoops == {i \in Specs : pc[i] \notin {"none", "done"}}

\* C20: after the first cmd.Start() of a spec failed its goroutine only
\* deletes the entry and returns, the return taking one from the counter of
\* pm.wg; a goroutine that returned is not launched again and starts no
\* process; the entry of a spec whose first start failed is not in
\* pm.running; the counter of pm.wg is the number of goroutines that were
\* launched and have not returned.
C20_InitialFailureEndsLoop ==
    /\ [][\A i \in Specs :
             /\ (pc[i] \in {"lockDelFailed", "delFailed"} /\ successes[i] = 0)
                  => pc'[i] \in {"lockDelFailed", "delFailed", "done"}
             /\ (pc[i] = "delFailed" /\ successes[i] = 0 /\ pc'[i] # pc[i])
                  => (pc'[i] = "done" /\ i \notin running' /\ wg' = wg - 1)
             /\ pc[i] = "done"
                  => (pc'[i] = "done" /\ successes'[i] = successes[i]
                        /\ (i \in running') = (i \in running))]_vars
    /\ [](\A i \in Specs : InitialFailed(i) => (i \notin running /\ child[i] = "none"))
    /\ [](wg = Cardinality(LiveLoops))

\* C20 witness: Start() has returned, the first start of one spec failed and
\* its goroutine is gone, the other spec's child runs and its goroutine is
\* the only one counted.
C20_Witness ==
    /\ startPc = "returned"
    /\ wg = 1
    /\ \E i, j \in Specs :
          InitialFailed(i) /\ pc[j] = "wait" /\ child[j] = "running"

\* the lines of q at the positions of S, in order, each with the prefix
RECURSIVE Forwarded(_, _, _)
Forwarded(lines, S, k) ==
    IF k > Len(lines) THEN <<>>
    ELSE (IF k \in S THEN <<Prefix \o lines[k]>> ELSE <<>>)
         \o Forwarded(lines, S, k + 1)

\* C21: a line whose write to the destination failed is never written to
\* it, and the other lines reach it in order: what the destination holds
\* is, in order, some of the input lines whose write did not fail.
C21_FailedLineDropped ==
    \E S \in SUBSET ((1..Len(LinesOf(SinkInput))) \ sinkDropped) :
        sinkDest = Forwarded(LinesOf(SinkInput), S, 1)

\* the step by which the timed goroutine leaves a delay for a restart
Restarts == tmPc \in {"select", "failSelect"} /\ tmPc' = "top"

\* C22: the timer of a restart delay, after an exit and after a failed
\* start alike, is armed with RestartDelay, or with five seconds when
\* RestartDelay is zero, and the goroutine goes on to a restart only when
\* that time has passed.
C22_RestartDelayNormalized ==
    /\ [](tmPc \in {"select", "failSelect"}
            => tmDelay = (IF restartDelay = 0 THEN 5 ELSE restartDelay))
    /\ [][Restarts =>
            /\ restartDelay # 0 => tmElapsed = restartDelay
            /\ restartDelay = 0 => tmElapsed = 5]_vars

\* C22 witness: a spec with RestartDelay zero is at the head of the loop
\* for a restart after five seconds in the delay.
C22_Witness ==
    /\ restartDelay = 0
    /\ tmPc = "top"
    /\ tmDelay = 5
    /\ tmElapsed = 5

\* C23: a spec has at most one child that is alive or not yet reaped, and
\* it is the child of the command now in pm.running: a goroutine stores a
\* command only when the spec has no entry and no child, and starts a
\* process only when the child before it was reaped.
C23_OneInstancePerSpec ==
    /\ [][\A i \in Specs :
             /\ successes'[i] # successes[i]
                  => (child[i] = "none" /\ child'[i] = "running"
                        /\ successes'[i] = successes[i] + 1)
             /\ (pc[i] = "insert" /\ pc'[i] # "insert")
                  => (i \notin running /\ child[i] = "none")]_vars
    /\ [](\A i \in Specs :
             child[i] # "none" => (i \in running /\ pc[i] \in {"startRet", "wait"}))

\* C23 witness: the second instance of a spec runs, with its entry in the
\* map, after the first was reaped.
C23_Witness ==
    \E i \in Specs :
        successes[i] = 2 /\ child[i] = "running" /\ i \in running /\ pc[i] = "wait"

\* the step by which the goroutine of spec i returns
Returns(i) == pc[i] # "done" /\ pc'[i] = "done"

\* C24: every return of a goroutine leaves no entry of its spec in
\* pm.running and takes one from the counter of pm.wg, a goroutine that
\* has returned has no entry, and pm.running is empty whenever Start() has
\* returned and the counter is zero.
C24_ExitLeavesNoEntry ==
    /\ [][\A i \in Specs :
             Returns(i) => (i \notin running' /\ wg' = wg - 1)]_vars
    /\ [](\A i \in Specs : pc[i] = "done" => i \notin running)
    /\ []((startPc = "returned" /\ wg = 0) => running = {})

\* C24 witness: Start() has returned and both goroutines have, one after
\* its child exited during shutdown and one from the delay, and the map
\* is empty.
C24_Witness ==
    /\ startPc = "returned"
    /\ wg = 0
    /\ running = {}
    /\ \E i, j \in Specs :
          /\ pc[i] = "done" /\ exitAt[i] = "ctxAfterWait"
          /\ pc[j] = "done" /\ exitAt[j] = "ctxDelay"

====
